---- MODULE Spec2Model ----
(***************************************************************************)
(* Model of blender_quick_export.py: the "Quick Export glTF" operator and  *)
(* its registration with the host's UI registry.                           *)
(*                                                                         *)
(* Paths are sequences of tokens.  "/" and "." are the two characters the  *)
(* path functions distinguish; every other token ("x", "blend", "glb",     *)
(* "home", ...) stands for a run of characters holding neither.            *)
(***************************************************************************)
EXTENDS Integers, Sequences, FiniteSets, TLC

(* ---------------------------- bounds ----------------------------------- *)
\* longest document path, in tokens
MaxLen == 6
\* number of load/unload cycles of the plugin that are explored
MaxCycles == 2

(* ---------------------------- constants -------------------------------- *)
Alphabet == {"/", ".", "x", "blend"}

\* the directory prefix of the f-string of line 29
FixedDir == <<"/", "home", "/", "casey", "/", "dream", "/", "static">>

\* home directories of the users who may run the host application
Homes == { <<"/", "home", "/", "casey">>, <<"/", "home", "/", "alice">> }

Operator == "QuickExportGLTFOperator"
Button == "draw_export_button"
\* draw callbacks the scene panel holds before the plugin is loaded
HostDrawFuncs == <<"SCENE_PT_scene.draw">>
\* result sets the host export operator can return without raising
HostResults == {"FINISHED", "CANCELLED"}

WarnMsg == <<"Please save the .blend file first.">>

VARIABLES
  filepath,     \* bpy.data.filepath, <<>> while the document is unsaved
  home,         \* home directory of the user running the host
  classes,      \* operator classes registered with bpy.utils
  draw_funcs,   \* draw callbacks of bpy.types.SCENE_PT_scene, in order
  life,         \* position in register()/unregister()
  cycles,       \* completed register()/unregister() cycles
  pc,           \* position in execute()
  export_path,  \* the local export_path of execute()
  log           \* what the current invocation of execute() did, in order

vars == <<filepath, home, classes, draw_funcs, life, cycles, pc, export_path, log>>

(* ------------------------- path functions ------------------------------ *)
\* str.rfind, 1-based: the last index of c in p, 0 when there is none
rfind(p, c) ==
  LET S == {i \in 1..Len(p) : p[i] = c}
  IN IF S = {} THEN 0 ELSE CHOOSE i \in S : \A j \in S : j <= i

basename_KeepDir(p) == p

\* os.path.basename: i = p.rfind('/') + 1; return p[i:]
basename(p) == SubSeq(p, rfind(p, "/") + 1, Len(p))

\* the while loop of genericpath._splitext: skip the leading dots
RECURSIVE SplitextScan(_, _, _)
SplitextScan(p, k, d) ==
  IF k < d
  THEN IF p[k] # "."
       THEN <<SubSeq(p, 1, d - 1), SubSeq(p, d, Len(p))>>
       ELSE SplitextScan(p, k + 1, d)
  ELSE <<p, <<>>>>

splitext_FirstDot(p) ==
  LET S == {i \in 1..Len(p) : p[i] = "."}
      d == IF S = {} THEN 0 ELSE CHOOSE i \in S : \A j \in S : i <= j
  IN IF d > rfind(p, "/") THEN SplitextScan(p, rfind(p, "/") + 1, d) ELSE <<p, <<>>>>

\* os.path.splitext: (root, ext)
splitext(p) ==
  LET sepIndex == rfind(p, "/")
      dotIndex == rfind(p, ".")
  IN IF dotIndex > sepIndex
     THEN SplitextScan(p, sepIndex + 1, dotIndex)
     ELSE <<p, <<>>>>

\* str.split('/')
RECURSIVE Split(_)
Split(p) ==
  LET S == {i \in 1..Len(p) : p[i] = "/"}
  IN IF S = {}
     THEN <<p>>
     ELSE LET i == CHOOSE k \in S : \A j \in S : k <= j
          IN <<SubSeq(p, 1, i - 1)>> \o Split(SubSeq(p, i + 1, Len(p)))

\* '/'.join(comps)
RECURSIVE JoinSlash(_)
JoinSlash(comps) ==
  IF comps = <<>> THEN <<>>
  ELSE IF Len(comps) = 1 THEN comps[1]
  ELSE comps[1] \o <<"/">> \o JoinSlash(Tail(comps))

\* the for loop of posixpath.normpath over the components
RECURSIVE NormComps(_, _, _)
NormComps(comps, new_comps, initial_slashes) ==
  IF comps = <<>> THEN new_comps
  ELSE LET comp == Head(comps)
       IN IF comp = <<>> \/ comp = <<".">>
          THEN NormComps(Tail(comps), new_comps, initial_slashes)
          ELSE IF \/ comp # <<".", ".">>
                  \/ (initial_slashes = 0 /\ new_comps = <<>>)
                  \/ (new_comps # <<>> /\ new_comps[Len(new_comps)] = <<".", ".">>)
          THEN NormComps(Tail(comps), Append(new_comps, comp), initial_slashes)
          ELSE IF new_comps # <<>>
          THEN NormComps(Tail(comps), SubSeq(new_comps, 1, Len(new_comps) - 1), initial_slashes)
          ELSE NormComps(Tail(comps), new_comps, initial_slashes)

startswith(p, q) == Len(p) >= Len(q) /\ SubSeq(p, 1, Len(q)) = q

\* os.path.normpath (posixpath)
normpath(path) ==
  IF path = <<>> THEN <<".">>
  ELSE LET initial_slashes ==
             IF ~startswith(path, <<"/">>) THEN 0
             ELSE IF startswith(path, <<"/", "/">>) /\ ~startswith(path, <<"/", "/", "/">>)
                  THEN 2 ELSE 1
           joined == JoinSlash(NormComps(Split(path), <<>>, initial_slashes))
           out == IF initial_slashes = 2 THEN <<"/", "/">> \o joined
                  ELSE IF initial_slashes = 1 THEN <<"/">> \o joined
                  ELSE joined
       IN IF out = <<>> THEN <<".">> ELSE out

\* lines 26-30 of execute: the export path of a saved document.
\* os.path.join of a single argument returns that argument.
ExportPath(blend_path) ==
  LET blend_name == basename(blend_path)
      name_no_ext == splitext(blend_name)[1]
  IN normpath(FixedDir \o <<"/">> \o name_no_ext \o <<".", "glb">>)

(* --------------------------- log events -------------------------------- *)
ExportCall_NoApply(path) ==
  [ev |-> "export", filepath |-> path, export_format |-> "GLB", export_apply |-> FALSE]

\* bpy.ops.export_scene.gltf(filepath=..., export_format="GLB", export_apply=True)
ExportCall(path) ==
  [ev |-> "export", filepath |-> path, export_format |-> "GLB", export_apply |-> TRUE]

\* self.report({level}, msg)
Report(level, msg) == [ev |-> "report", level |-> level, msg |-> msg]

\* return {status}
Return(status) == [ev |-> "return", status |-> status]

\* the host export call handing back a result set
Returned(r) == [ev |-> "export_returned", result |-> r]

\* the host export call raising
Raised == [ev |-> "export_raised"]

(* --------------------------- documents --------------------------------- *)
RECURSIVE SeqsUpTo(_)
SeqsUpTo(n) ==
  IF n = 0 THEN {<<>>}
  ELSE LET R == SeqsUpTo(n - 1)
       IN R \cup {Append(s, a) : s \in {t \in R : Len(t) = n - 1}, a \in Alphabet}

\* the paths a document can have: none (never saved), or the absolute path of a file
DocPaths ==
  {<<>>} \cup {p \in SeqsUpTo(MaxLen) : Len(p) >= 2 /\ p[1] = "/" /\ p[Len(p)] # "/"}

(* ----------------------------- Init ------------------------------------ *)
Init ==
  /\ filepath \in DocPaths
  /\ home \in Homes
  /\ classes = {}
  /\ draw_funcs = HostDrawFuncs
  /\ life = "unloaded"
  /\ cycles = 0
  /\ pc = "idle"
  /\ export_path = <<>>
  /\ log = <<>>

(* ------------------------ register / unregister ------------------------ *)
\* list.remove: drop the first occurrence of x
RemoveFirst(s, x) ==
  LET S == {i \in 1..Len(s) : s[i] = x}
  IN IF S = {} THEN s
     ELSE LET i == CHOOSE k \in S : \A j \in S : k <= j
          IN SubSeq(s, 1, i - 1) \o SubSeq(s, i + 1, Len(s))

RegisterClass_AppendFirst ==
  /\ life = "unloaded"
  /\ cycles < MaxCycles
  /\ draw_funcs' = Append(draw_funcs, Button)
  /\ life' = "registering"
  /\ UNCHANGED <<filepath, home, classes, cycles, pc, export_path, log>>

\* register(), line 48: bpy.utils.register_class(QuickExportGLTFOperator)
RegisterClass ==
  /\ life = "unloaded"
  /\ cycles < MaxCycles
  /\ classes' = classes \cup {Operator}
  /\ life' = "registering"
  /\ UNCHANGED <<filepath, home, draw_funcs, cycles, pc, export_path, log>>

\* register(), line 49: bpy.types.SCENE_PT_scene.append(draw_export_button)
AppendButton ==
  /\ life = "registering"
  /\ draw_funcs' = Append(draw_funcs, Button)
  /\ life' = "loaded"
  /\ UNCHANGED <<filepath, home, classes, cycles, pc, export_path, log>>

RemoveButton_Keep ==
  /\ life = "loaded"
  /\ pc # "exporting"
  /\ life' = "unregistering"
  /\ UNCHANGED <<filepath, home, classes, draw_funcs, cycles, pc, export_path, log>>

\* unregister(), line 53: bpy.types.SCENE_PT_scene.remove(draw_export_button)
RemoveButton ==
  /\ life = "loaded"
  /\ pc # "exporting"
  /\ draw_funcs' = RemoveFirst(draw_funcs, Button)
  /\ life' = "unregistering"
  /\ UNCHANGED <<filepath, home, classes, cycles, pc, export_path, log>>

\* unregister(), line 54: bpy.utils.unregister_class(QuickExportGLTFOperator)
UnregisterClass ==
  /\ life = "unregistering"
  /\ classes' = classes \ {Operator}
  /\ life' = "unloaded"
  /\ cycles' = cycles + 1
  /\ UNCHANGED <<filepath, home, draw_funcs, pc, export_path, log>>

(* ------------------------------ execute -------------------------------- *)
\* the operator can be invoked while it is registered and no call is in progress
CanInvoke == life = "loaded" /\ pc # "exporting"

ExecuteUnsaved_Export ==
  /\ CanInvoke
  /\ filepath = <<>>
  /\ export_path' = ExportPath(filepath)
  /\ log' = <<ExportCall(export_path')>>
  /\ pc' = "exporting"
  /\ UNCHANGED <<filepath, home, classes, draw_funcs, life, cycles>>

\* execute(), lines 21-24: the document was never saved
ExecuteUnsaved ==
  /\ CanInvoke
  /\ filepath = <<>>
  /\ log' = <<Report("WARNING", WarnMsg), Return("CANCELLED")>>
  /\ pc' = "returned"
  /\ UNCHANGED <<filepath, home, classes, draw_funcs, life, cycles, export_path>>

ExecuteExport_ReportFirst ==
  /\ CanInvoke
  /\ filepath # <<>>
  /\ export_path' = ExportPath(filepath)
  /\ log' = <<Report("INFO", <<"Exported to ">> \o export_path'), ExportCall(export_path')>>
  /\ pc' = "exporting"
  /\ UNCHANGED <<filepath, home, classes, draw_funcs, life, cycles>>

\* execute(), lines 21-36: the document is saved; the host export call is made
ExecuteExport ==
  /\ CanInvoke
  /\ filepath # <<>>
  /\ export_path' = ExportPath(filepath)
  /\ log' = <<ExportCall(export_path')>>
  /\ pc' = "exporting"
  /\ UNCHANGED <<filepath, home, classes, draw_funcs, life, cycles>>

ExportReturns_CheckResult(r) ==
  /\ pc = "exporting"
  /\ log' = log \o IF r = "FINISHED"
                   THEN <<Returned(r), Report("INFO", <<"Exported to ">> \o export_path),
                          Return("FINISHED")>>
                   ELSE <<Returned(r), Report("WARNING", <<"Export failed">>),
                          Return("CANCELLED")>>
  /\ pc' = "returned"
  /\ UNCHANGED <<filepath, home, classes, draw_funcs, life, cycles, export_path>>

ExportReturns_WrongLevel(r) ==
  /\ pc = "exporting"
  /\ log' = log \o <<Returned(r), Report("WARNING", <<"Exported to ">> \o export_path),
                     Return("FINISHED")>>
  /\ pc' = "returned"
  /\ UNCHANGED <<filepath, home, classes, draw_funcs, life, cycles, export_path>>

\* the host export call returns r; execute(), lines 38-39, reports and returns
ExportReturns(r) ==
  /\ pc = "exporting"
  /\ log' = log \o <<Returned(r), Report("INFO", <<"Exported to ">> \o export_path),
                     Return("FINISHED")>>
  /\ pc' = "returned"
  /\ UNCHANGED <<filepath, home, classes, draw_funcs, life, cycles, export_path>>

\* the host export call raises; the exception leaves execute(), lines 32-36
ExportRaises ==
  /\ pc = "exporting"
  /\ log' = Append(log, Raised)
  /\ pc' = "raised"
  /\ UNCHANGED <<filepath, home, classes, draw_funcs, life, cycles, export_path>>

(* ------------------------------- Spec ---------------------------------- *)
Next ==
  \/ RegisterClass
  \/ AppendButton
  \/ RemoveButton
  \/ UnregisterClass
  \/ ExecuteUnsaved
  \/ ExecuteExport
  \/ \E r \in HostResults : ExportReturns(r)
  \/ ExportRaises

Spec == Init /\ [][Next]_vars

(* ------------------------- reading the log ----------------------------- *)
Exports == SelectSeq(log, LAMBDA e : e.ev = "export")
Reports == SelectSeq(log, LAMBDA e : e.ev = "report")
Returns == SelectSeq(log, LAMBDA e : e.ev = "return")

IsInfo(e) == e.ev = "report" /\ e.level = "INFO"
IsFinished(e) == e.ev = "return" /\ e.status = "FINISHED"

NoSlash(s) == \A i \in 1..Len(s) : s[i] # "/"
HasName(s) == \E i \in 1..Len(s) : s[i] # "."

\* the positions i at which filepath reads  dir ++ X ++ ".blend",  dir being
\* its first i tokens (empty or ending in "/") and X holding no "/"
BlendSplits ==
  {i \in 0..(Len(filepath) - 2) :
     /\ filepath[Len(filepath) - 1] = "."
     /\ filepath[Len(filepath)] = "blend"
     /\ (i = 0 \/ filepath[i] = "/")
     /\ NoSlash(SubSeq(filepath, i + 1, Len(filepath) - 2))}

StemX(i) == SubSeq(filepath, i + 1, Len(filepath) - 2)

\* the part of p after its last "/"
LastComponent(p) ==
  CHOOSE s \in {SubSeq(p, i + 1, Len(p)) : i \in 0..Len(p)} :
    /\ NoSlash(s)
    /\ (Len(s) = Len(p) \/ p[Len(p) - Len(s)] = "/")

\* b without its final extension: the text from the last dot on, when some
\* character other than a dot comes before that dot
FinalExtRemoved(b) ==
  LET D == {k \in 1..Len(b) : b[k] = "." /\ \E j \in 1..(k - 1) : b[j] # "."}
  IN IF D = {} THEN b
     ELSE SubSeq(b, 1, (CHOOSE k \in D : \A j \in D : j <= k) - 1)

\* p names a file directly inside FixedDir
DirectlyInside(p) ==
  LET n == Len(FixedDir) + 1
      rest == SubSeq(p, n + 1, Len(p))
  IN /\ Len(p) > n
     /\ SubSeq(p, 1, n) = FixedDir \o <<"/">>
     /\ NoSlash(rest)
     /\ rest # <<".">>
     /\ rest # <<".", ".">>

(* ------------------------------ claims --------------------------------- *)

\* C1 (as stated): for every saved document whose path has basename X.blend,
\* in any directory, the path passed to the host exporter is
\* /home/casey/dream/static/X.glb.
C1_Original ==
  \A i \in BlendSplits : \A k \in 1..Len(Exports) :
    Exports[k].filepath = FixedDir \o <<"/">> \o StemX(i) \o <<".", "glb">>

\* C1 (amended): for every saved document whose path has basename X.blend,
\* where X holds at least one character other than a dot, the path passed to
\* the host exporter is /home/casey/dream/static/X.glb, whatever the directory.
C1_Amended ==
  \A i \in BlendSplits : \A k \in 1..Len(Exports) :
    HasName(StemX(i)) =>
      Exports[k].filepath = FixedDir \o <<"/">> \o StemX(i) \o <<".", "glb">>

\* C1 witness: a document X.blend in a directory other than the root was exported
C1_Witness ==
  /\ Len(Exports) = 1
  /\ \E i \in BlendSplits : i > 1 /\ HasName(StemX(i))

\* C2: on a never-saved document execute emits exactly one WARNING report,
\* returns CANCELLED and makes no host export call.
C2_Unsaved ==
  (filepath = <<>> /\ pc # "idle") =>
    /\ pc = "returned"
    /\ Len(Reports) = 1 /\ Reports[1].level = "WARNING"
    /\ Returns = <<[ev |-> "return", status |-> "CANCELLED"]>>
    /\ Exports = <<>>

C2_Witness == filepath = <<>> /\ pc = "returned" /\ Len(log) = 2

\* C3: an invocation of execute on a saved document makes the host export call
\* exactly once, with export_format GLB, export_apply true and the computed
\* export path; no invocation makes the call more than once.
C3_ExportOnce ==
  /\ Len(Exports) <= 1
  /\ (filepath # <<>> /\ pc # "idle") =>
       Exports = <<[ev |-> "export", filepath |-> export_path,
                    export_format |-> "GLB", export_apply |-> TRUE]>>

C3_Witness == filepath # <<>> /\ pc = "returned" /\ Len(Exports) = 1

\* C4: an invocation of execute that returns emits exactly one report; the
\* report is INFO iff the status is FINISHED and WARNING iff it is CANCELLED,
\* and the INFO report names the path that was passed to the host exporter.
C4_ReportMatchesStatus ==
  pc = "returned" =>
    /\ Len(Reports) = 1 /\ Len(Returns) = 1
    /\ Reports[1].level \in {"INFO", "WARNING"}
    /\ Returns[1].status \in {"FINISHED", "CANCELLED"}
    /\ Reports[1].level = "INFO" <=> Returns[1].status = "FINISHED"
    /\ Reports[1].level = "WARNING" <=> Returns[1].status = "CANCELLED"
    /\ Reports[1].level = "INFO" =>
         /\ Len(Exports) = 1
         /\ Reports[1].msg = <<"Exported to ">> \o Exports[1].filepath

C4_Witness ==
  pc = "returned" /\ Len(Reports) = 1 /\ Reports[1].level = "INFO" /\ Len(Exports) = 1

\* C5: register() adds the operator class and the button, unregister() removes
\* both; after every register()/unregister() cycle the registry is as it was
\* before the plugin was loaded.
C5_RegistryRestored ==
  /\ life = "loaded" =>
       /\ Operator \in classes
       /\ Cardinality({i \in 1..Len(draw_funcs) : draw_funcs[i] = Button}) = 1
  /\ life = "unloaded" =>
       /\ classes = {}
       /\ draw_funcs = HostDrawFuncs

C5_Witness == life = "unloaded" /\ cycles >= 2 /\ draw_funcs = HostDrawFuncs

\* C6: the export destination is dream/static/{filename}.glb under the home
\* directory of the user running the host application.
C6_UnderHome ==
  \A k \in 1..Len(Exports) :
    Exports[k].filepath =
      home \o <<"/", "dream", "/", "static", "/">>
           \o FinalExtRemoved(LastComponent(filepath)) \o <<".", "glb">>

\* C7: the INFO report and the FINISHED result come only after the host export
\* call has returned; when the call raises there is neither.
C7_SuccessAfterExport ==
  /\ \A i \in 1..Len(log) :
       (IsInfo(log[i]) \/ IsFinished(log[i])) =>
         /\ \E j \in 1..(i - 1) : log[j].ev = "export"
         /\ \E j \in 1..(i - 1) : log[j].ev = "export_returned"
  /\ pc = "exporting" => \A i \in 1..Len(log) : ~IsInfo(log[i]) /\ ~IsFinished(log[i])
  /\ pc = "raised" => \A i \in 1..Len(log) : ~IsInfo(log[i]) /\ ~IsFinished(log[i])

C7_Witness ==
  /\ pc = "raised"
  /\ Len(Exports) = 1
  /\ log[Len(log)].ev = "export_raised"

\* C8: in every state, the intermediate states of register() and unregister()
\* included, the button is attached to the scene panel only while the operator
\* class is registered.
C8_ButtonNeedsClass ==
  (\E i \in 1..Len(draw_funcs) : draw_funcs[i] = Button) => Operator \in classes

C8_Witness ==
  /\ life = "unregistering"
  /\ Operator \in classes
  /\ \A i \in 1..Len(draw_funcs) : draw_funcs[i] # Button

\* C9: for every non-empty document path the export path is a file directly
\* inside /home/casey/dream/static, named by the source basename without its
\* final extension, followed by .glb.
C9_InsideFixedDir ==
  \A k \in 1..Len(Exports) :
    /\ DirectlyInside(Exports[k].filepath)
    /\ Exports[k].filepath =
         FixedDir \o <<"/">> \o FinalExtRemoved(LastComponent(filepath)) \o <<".", "glb">>

\* C9 witness: an exported document whose path goes through ".." and whose
\* name has more than one dot
C9_Witness ==
  /\ Len(Exports) = 1
  /\ \E i \in 1..(Len(filepath) - 3) :
       filepath[i] = "/" /\ filepath[i + 1] = "." /\ filepath[i + 2] = "." /\ filepath[i + 3] = "/"
  /\ Cardinality({i \in 1..Len(LastComponent(filepath)) : LastComponent(filepath)[i] = "."}) >= 1

\* C10: whenever the host export call returns, whatever result set it returns,
\* execute emits the INFO "Exported to" report and returns FINISHED.
C10_ResultIgnored ==
  \A r \in HostResults :
    (pc = "returned" /\ \E i \in 1..Len(log) : log[i] = [ev |-> "export_returned", result |-> r]) =>
      /\ \E i \in 1..Len(log) : IsInfo(log[i]) /\ log[i].msg[1] = "Exported to "
      /\ \E i \in 1..Len(log) : IsFinished(log[i])

C10_Witness ==
  /\ pc = "returned"
  /\ \E i \in 1..Len(log) : log[i] = [ev |-> "export_returned", result |-> "CANCELLED"]
  /\ \E i \in 1..Len(log) : IsFinished(log[i])

====
